---- MODULE Spec2Model ----
(***************************************************************************)
(* Model of src/app/api/generate-pdf/route.ts: the POST handler that       *)
(* validates an assessment result, renders it to HTML, drives a headless   *)
(* browser to print it to PDF and answers with the PDF, a fallback HTML    *)
(* document or a JSON error.                                               *)
(*                                                                         *)
(* Strings are sequences of one-character strings, so that replace() and   *)
(* toLowerCase() are computed.  JavaScript values are tagged records.      *)
(* Numbers are kept in tenths (79.5 is 795) so that Math.round is          *)
(* computed.  The HTML document is the record of the values substituted    *)
(* into the fixed template.                                                *)
(***************************************************************************)
EXTENDS Integers, Sequences, FiniteSets, TLC

(* ------------------------------ bounds -------------------------------- *)
\* Number of concurrently handled requests (ConcSpec).
NumRequests == 2
\* Largest length of the buffer page.pdf returns.
MaxBufLen == 1
\* Largest number of score categories present in one input (HtmlSpec).
MaxPresent == 2
\* Largest length of the countryFit sequence (HtmlSpec).
MaxCountries == 8
\* Largest length of a student name built character by character (SlugSpec).
MaxNameLen == 4

(* --------------------------- JavaScript values ------------------------ *)
Undefined == [t |-> "undefined"]
Str(s) == [t |-> "string", s |-> s]
Bool(b) == [t |-> "boolean", b |-> b]
\* n is the number in tenths.
Num(n) == [t |-> "number", n |-> n]
Arr(a) == [t |-> "array", a |-> a]

\* ToBoolean, as applied by !, || and ?: .
Truthy(v) ==
  CASE v.t = "undefined" -> FALSE
    [] v.t = "string" -> Len(v.s) > 0
    [] v.t = "boolean" -> v.b
    [] v.t = "number" -> v.n # 0
    [] v.t = "array" -> TRUE

\* a || b
Or(a, b) == IF Truthy(a) THEN a ELSE b

Digit(d) == <<"0", "1", "2", "3", "4", "5", "6", "7", "8", "9">>[d + 1]

RECURSIVE Digits(_)
Digits(n) == IF n < 10 THEN <<Digit(n)>> ELSE Digits(n \div 10) \o <<Digit(n % 10)>>

\* Number to string, for a number given in tenths.
NumToStr(n) ==
  LET a == IF n < 0 THEN -n ELSE n
      body == Digits(a \div 10) \o (IF a % 10 # 0 THEN <<".", Digit(a % 10)>> ELSE <<>>)
  IN  IF n < 0 THEN <<"-">> \o body ELSE body

RECURSIVE JoinComma(_)
JoinComma(a) ==
  IF Len(a) = 0 THEN <<>>
  ELSE IF Len(a) = 1 THEN a[1].s
  ELSE a[1].s \o <<",">> \o JoinComma(Tail(a))

\* The string a template literal `${v}` substitutes for v.
ToStr(v) ==
  CASE v.t = "undefined" -> <<"u", "n", "d", "e", "f", "i", "n", "e", "d">>
    [] v.t = "string" -> v.s
    [] v.t = "boolean" -> IF v.b THEN <<"t", "r", "u", "e">> ELSE <<"f", "a", "l", "s", "e">>
    [] v.t = "number" -> NumToStr(v.n)
    [] v.t = "array" -> JoinComma(v.a)

\* Math.round of a number in tenths: the nearest integer, halves towards +infinity.
MathRound(n) == (n + 5) \div 10

(* ------------------------------ strings ------------------------------- *)
WhiteSpace == {" ", "\t", "\n"}

UpperLetters ==
  <<"A", "B", "C", "D", "E", "F", "G", "H", "I", "J", "K", "L", "M",
    "N", "O", "P", "Q", "R", "S", "T", "U", "V", "W", "X", "Y", "Z">>

LowerLetters ==
  <<"a", "b", "c", "d", "e", "f", "g", "h", "i", "j", "k", "l", "m",
    "n", "o", "p", "q", "r", "s", "t", "u", "v", "w", "x", "y", "z">>

ToLowerChar(c) ==
  IF \E i \in 1..Len(UpperLetters) : UpperLetters[i] = c
  THEN LowerLetters[CHOOSE i \in 1..Len(UpperLetters) : UpperLetters[i] = c]
  ELSE c

\* String.prototype.toLowerCase
ToLowerCase(s) == [i \in 1..Len(s) |-> ToLowerChar(s[i])]

RECURSIVE SkipWhiteSpace(_)
SkipWhiteSpace(s) ==
  IF Len(s) > 0 /\ s[1] \in WhiteSpace THEN SkipWhiteSpace(Tail(s)) ELSE s

\* s.replace(/\s+/g, '-'): every maximal run of whitespace becomes one '-'.
RECURSIVE ReplaceWhiteSpace(_)
ReplaceWhiteSpace(s) ==
  IF Len(s) = 0 THEN <<>>
  ELSE IF s[1] \in WhiteSpace THEN <<"-">> \o ReplaceWhiteSpace(SkipWhiteSpace(s))
  ELSE <<s[1]>> \o ReplaceWhiteSpace(Tail(s))

\* s.replace(/\s+/, '-'): without the g flag only the first run is replaced.
RECURSIVE ReplaceFirstWhiteSpace(_)
ReplaceFirstWhiteSpace(s) ==
  IF Len(s) = 0 THEN <<>>
  ELSE IF s[1] \in WhiteSpace THEN <<"-">> \o SkipWhiteSpace(s)
  ELSE <<s[1]>> \o ReplaceFirstWhiteSpace(Tail(s))

\* Slugify with the g flag of the regular expression left out.
SlugifyFirstRunOnly(s) == ToLowerCase(ReplaceFirstWhiteSpace(s))

\* name.replace(/\s+/g, '-').toLowerCase()
Slugify(s) == ToLowerCase(ReplaceWhiteSpace(s))

(* --------------------------- request bodies --------------------------- *)
\* The six fixed score categories with their weights, in template order.
ScoreCategories ==
  << [label |-> "Financial Planning", weight |-> "25%"],
     [label |-> "Academic Readiness", weight |-> "20%"],
     [label |-> "Career Alignment", weight |-> "20%"],
     [label |-> "Personal & Cultural", weight |-> "15%"],
     [label |-> "Practical Readiness", weight |-> "10%"],
     [label |-> "Support System", weight |-> "10%"] >>

CategoryLabels == {ScoreCategories[i].label : i \in 1..Len(ScoreCategories)}

NoScores == [c \in CategoryLabels |-> Undefined]

JaneDoe == <<"J", "a", "n", "e", " ", "D", "o", "e">>
AlRay == <<"A", "L", " ", " ", "R", "a", "y">>
Canada == <<"C", "a", "n", "a", "d", "a">>
India == <<"I", "n", "d", "i", "a">>
Narnia == <<"N", "a", "r", "n", "i", "a">>
Focused == <<"F", "o", "c", "u", "s", "e", "d">>

\* The value request.json() resolves to: JSON null, or an object whose fields
\* are JavaScript values (Undefined for a key that is absent).
NullBody == [kind |-> "null"]

ObjectBody(name1, name2, scores, strengths, countryFit) ==
  [kind |-> "object",
   StudentName |-> name1,
   studentName |-> name2,
   Scores |-> scores,
   OverallReadinessIndex |-> Num(720),
   ReadinessLevel |-> Undefined,
   Strengths |-> strengths,
   Gaps |-> Undefined,
   Recommendations |-> Undefined,
   CountryFit |-> countryFit]

(* --------------------------- HTML report builder ----------------------- *)
NoStrengths == "No strengths identified"
NoGaps == "No gaps identified"
NoRecommendations == "No recommendations provided"
NeedsAssessment == "Needs Assessment"
DefaultStudent == <<"S", "t", "u", "d", "e", "n", "t">>

\* `${v || literal}`: the substituted text, or the literal default.
TextOr(v, literal) == IF Truthy(v) THEN [given |-> TRUE, text |-> ToStr(v), literal |-> ""]
                      ELSE [given |-> FALSE, text |-> <<>>, literal |-> literal]

BarClass(percentage) ==
  IF percentage >= 80 THEN "excellent"
  ELSE IF percentage >= 60 THEN "good"
  ELSE IF percentage >= 40 THEN "average"
  ELSE "weak"

generateScoreCard(label, score, weight) ==
  LET percentage == MathRound(score.n)
  IN  [label |-> label, percentage |-> percentage, barClass |-> BarClass(percentage),
       width |-> percentage, weight |-> weight]

countryInfo ==
  { [name |-> <<"S", "i", "n", "g", "a", "p", "o", "r", "e">>, flag |-> "flag-SG"],
    [name |-> <<"I", "r", "e", "l", "a", "n", "d">>, flag |-> "flag-IE"],
    [name |-> <<"N", "e", "t", "h", "e", "r", "l", "a", "n", "d", "s">>, flag |-> "flag-NL"],
    [name |-> <<"C", "a", "n", "a", "d", "a">>, flag |-> "flag-CA"],
    [name |-> <<"A", "u", "s", "t", "r", "a", "l", "i", "a">>, flag |-> "flag-AU"],
    [name |-> <<"U", "n", "i", "t", "e", "d", " ", "K", "i", "n", "g", "d", "o", "m">>, flag |-> "flag-GB"],
    [name |-> <<"G", "e", "r", "m", "a", "n", "y">>, flag |-> "flag-DE"],
    [name |-> <<"U", "n", "i", "t", "e", "d", " ", "S", "t", "a", "t", "e", "s">>, flag |-> "flag-US"],
    [name |-> <<"I", "n", "d", "i", "a">>, flag |-> "flag-IN"],
    [name |-> <<"U", "n", "i", "t", "e", "d", " ", "A", "r", "a", "b", " ", "E", "m", "i", "r", "a", "t", "e", "s">>, flag |-> "flag-AE"] }

CountryFlag(country) ==
  IF \E e \in countryInfo : e.name = country
  THEN (CHOOSE e \in countryInfo : e.name = country).flag
  ELSE "flag-globe"

\* generateCountryCard with the match percentage clamped at 0.
generateCountryCardClamped(country, index) ==
  [rank |-> index + 1, flag |-> CountryFlag(ToStr(country)), name |-> ToStr(country),
   match |-> IF 100 - index * 15 < 0 THEN 0 ELSE MathRound(10 * (100 - index * 15))]

\* index is the zero-based position in countryFit.
generateCountryCard(country, index) ==
  [rank |-> index + 1, flag |-> CountryFlag(ToStr(country)), name |-> ToStr(country),
   match |-> MathRound(10 * (100 - index * 15))]

\* scores[label] ? generateScoreCard(...) : ''
ScoreCardShown(score) == Truthy(score)

ScoresGrid(scores) ==
  LET shown == SelectSeq(ScoreCategories, LAMBDA c : ScoreCardShown(scores[c.label]))
  IN  [i \in 1..Len(shown) |->
         generateScoreCard(shown[i].label, scores[shown[i].label], shown[i].weight)]

\* countryFit.length > 0, for what results['Country Fit (Top 3)'] || [] yields.
CountryFitLength(cf) ==
  CASE cf.t = "array" -> Len(cf.a)
    [] cf.t = "string" -> Len(cf.s)
    [] OTHER -> 0

\* generateHTMLContent throws a TypeError when countryFit has a positive length
\* and no map method: a non-empty string.
generateHTMLThrows(results) ==
  LET countryFit == Or(results.CountryFit, Arr(<<>>))
  IN  CountryFitLength(countryFit) > 0 /\ countryFit.t # "array"

generateHTMLContent(results) ==
  LET countryFit == Or(results.CountryFit, Arr(<<>>))
  IN  [studentName |-> ToStr(Or(Or(results.StudentName, results.studentName), Str(DefaultStudent))),
       overallIndex |-> ToStr(Or(results.OverallReadinessIndex, Num(0))),
       readinessLevel |-> TextOr(results.ReadinessLevel, NeedsAssessment),
       cards |-> ScoresGrid(results.Scores),
       strengths |-> TextOr(results.Strengths, NoStrengths),
       gaps |-> TextOr(results.Gaps, NoGaps),
       recommendations |-> TextOr(results.Recommendations, NoRecommendations),
       countrySection |-> CountryFitLength(countryFit) > 0,
       countryCards |-> IF CountryFitLength(countryFit) > 0
                        THEN [i \in 1..Len(countryFit.a) |-> generateCountryCard(countryFit.a[i], i - 1)]
                        ELSE <<>>]

NoHtml == [studentName |-> <<>>, overallIndex |-> <<>>,
           readinessLevel |-> TextOr(Undefined, ""), cards |-> <<>>,
           strengths |-> TextOr(Undefined, ""), gaps |-> TextOr(Undefined, ""),
           recommendations |-> TextOr(Undefined, ""),
           countrySection |-> FALSE, countryCards |-> <<>>]

(* ------------------------------ responses ------------------------------ *)
NoResponse == [kind |-> "none"]

\* NextResponse.json({ error: message }, { status })
JsonResponse(status, message) ==
  [kind |-> "json", status |-> status, contentType |-> "application/json", error |-> message]

MissingNameMessage == "Missing student name"
EmptyBufferMessage == "PDF generation failed - empty buffer"
GenericMessage == "Failed to generate PDF"
FallbackNote ==
  "Note: This is a simplified report. For detailed analysis, please retry PDF generation."

\* results['Student Name'] || results.studentName
StudentNameOf(results) == Or(results.StudentName, results.studentName)

\* !results['Student Name'] && !results.studentName
MissingStudentName(results) == ~Truthy(results.StudentName) /\ ~Truthy(results.studentName)

\* (name).replace(...) is a TypeError unless the name is a string.
ResponseThrows(results) == StudentNameOf(results).t # "string"

\* FallbackResponse with the PDF error rethrown to the outer catch block.
FallbackResponseRethrown(results) == JsonResponse(500, "Failed to generate PDF")

\* The response of the inner catch block: new NextResponse(html, { headers }).
FallbackResponse(results) ==
  [kind |-> "html", status |-> 200, contentType |-> "text/html",
   filename |-> [prefix |-> "study-abroad-report-",
                 slug |-> Slugify(StudentNameOf(results).s), ext |-> ".html"],
   body |-> [title |-> ToStr(StudentNameOf(results)),
             student |-> ToStr(StudentNameOf(results)),
             overallIndex |-> TextOr(results.OverallReadinessIndex, "N/A"),
             readinessLevel |-> TextOr(results.ReadinessLevel, NeedsAssessment),
             strengths |-> TextOr(results.Strengths, NoStrengths),
             recommendations |-> TextOr(results.Recommendations, NoRecommendations),
             note |-> FallbackNote]]

\* PdfResponse with the buffer serialised through NextResponse.json.
PdfResponseAsJson(results, buf) ==
  [kind |-> "pdf", status |-> 200, contentType |-> "application/json",
   contentLength |-> buf.len,
   filename |-> [prefix |-> "psychometric-report-",
                 slug |-> Slugify(StudentNameOf(results).s), ext |-> ".pdf"],
   body |-> buf]

\* new Response(pdfBuffer, { status: 200, headers })
PdfResponse(results, buf) ==
  [kind |-> "pdf", status |-> 200, contentType |-> "application/pdf",
   contentLength |-> buf.len,
   filename |-> [prefix |-> "psychometric-report-",
                 slug |-> Slugify(StudentNameOf(results).s), ext |-> ".pdf"],
   body |-> buf]

\* IsEmptyBuffer with the validation left out.
IsEmptyBufferUnchecked(buf) == FALSE

\* pdfBuffer.length === 0
IsEmptyBuffer(buf) == buf.len = 0

\* CatchResponse with the message of the error that was thrown.
CatchResponseWithDetail(error) == JsonResponse(500, error)

\* The response of the outer catch block, whatever was thrown.
CatchResponse(error) == JsonResponse(500, GenericMessage)

(* ------------------------------ handler state -------------------------- *)
VARIABLES
  pc,       \* per request: the await the handler is suspended at, "idle" or "done"
  body,     \* per request: what request.json() resolves to
  browser,  \* per request: the handler's const browser (0 before launch resolves)
  open,     \* the browser instances that are running
  nextId,   \* the identity the next launched browser gets
  htmlContent, \* per request: the generated HTML document
  pdfBuffer, \* per request: what page.pdf resolved to
  resp,     \* per request: the response returned
  caught,   \* per request: the error the outer catch block received, or "none"
  trace,    \* per request: the milestones passed, in order
  callLog   \* per request: the external calls awaited, with their outcomes

vars == <<pc, body, browser, open, nextId, htmlContent, pdfBuffer, resp, caught, trace, callLog>>

Requests == 1..NumRequests

\* What an awaited external call may reject with.
Errors == {"TimeoutError", "ProtocolError"}
Outcomes == {"ok"} \cup Errors

NoBuffer == [len |-> -1]
BufferLens == 0..MaxBufLen

NameValues == {Undefined, Str(<<>>), Str(JaneDoe), Bool(TRUE)}
CountryFitValues == {Undefined, Arr(<<Str(Canada), Str(Narnia)>>), Str(India)}

\* The request bodies of the single-request specification.
Bodies ==
  {NullBody} \cup
  {ObjectBody(n1, n2, NoScores, s, cf) :
     n1 \in NameValues, n2 \in {Undefined, Str(AlRay)},
     s \in {Undefined, Str(Focused)}, cf \in CountryFitValues}

\* The request bodies of the concurrent specification.
ConcBodies ==
  {ObjectBody(n1, Undefined, NoScores, Undefined, Undefined) : n1 \in {Undefined, Str(JaneDoe)}}

Count(log, op) == Cardinality({i \in 1..Len(log) : log[i].op = op})

\* The handler awaits op for request r and the call settles with outcome out.
Logged(r, op, out) == [callLog EXCEPT ![r] = Append(@, [op |-> op, out |-> out])]

\* return response, having passed the milestones ms.
Finish(r, response, error, ms) ==
  /\ pc' = [pc EXCEPT ![r] = "done"]
  /\ resp' = [resp EXCEPT ![r] = response]
  /\ caught' = [caught EXCEPT ![r] = error]
  /\ trace' = [trace EXCEPT ![r] = @ \o ms \o <<"ResponseSent">>]

\* An exception reaches the outer catch block.
Throw(r, error, ms) == Finish(r, CatchResponse(error), error, ms)

\* Continue to the next await.
Goto(r, next, ms) ==
  /\ pc' = [pc EXCEPT ![r] = next]
  /\ trace' = [trace EXCEPT ![r] = @ \o ms]
  /\ UNCHANGED <<resp, caught>>

\* NewBrowserId with one browser instance kept for all requests.
SharedBrowserId(id) == 1

\* The identity of a newly launched browser process.
NewBrowserId(id) == id

\* AfterPdfFailure with page.pdf attempted again.
RetryPdf == "pdf"

\* Where the handler goes when page.pdf rejects: the inner catch block.
AfterPdfFailure == "closeFallback"

\* The most calls of one kind the model follows for one request.
MaxCalls == 2

(* ------------------------------ handler steps -------------------------- *)
\* Lines 6-16: request.json() settles; validation; puppeteer.launch is called.
RequestJson(r) ==
  /\ pc[r] = "json"
  /\ \E out \in Outcomes :
       /\ callLog' = Logged(r, "json", out)
       /\ IF out # "ok" THEN Throw(r, out, <<>>)
          ELSE IF body[r].kind = "null" THEN Throw(r, "TypeError", <<>>)
          ELSE IF MissingStudentName(body[r])
               THEN Finish(r, JsonResponse(400, MissingNameMessage), "none", <<>>)
          ELSE Goto(r, "launch", <<"Validated">>)
  /\ UNCHANGED <<body, browser, open, nextId, htmlContent, pdfBuffer>>

\* Lines 16-27: puppeteer.launch settles; browser.newPage is called.
Launch(r) ==
  /\ pc[r] = "launch"
  /\ Count(callLog[r], "launch") < MaxCalls
  /\ \E out \in Outcomes :
       /\ callLog' = Logged(r, "launch", out)
       /\ IF out # "ok"
          THEN Throw(r, out, <<>>) /\ UNCHANGED <<browser, open, nextId>>
          ELSE /\ browser' = [browser EXCEPT ![r] = NewBrowserId(nextId)]
               /\ open' = open \cup {NewBrowserId(nextId)}
               /\ nextId' = nextId + 1
               /\ Goto(r, "newPage", <<"BrowserOpen">>)
  /\ UNCHANGED <<body, htmlContent, pdfBuffer>>

\* Lines 27-40: newPage settles; timeouts set; the HTML is generated;
\* page.setContent is called.
NewPage(r) ==
  /\ pc[r] = "newPage"
  /\ \E out \in Outcomes :
       /\ callLog' = Logged(r, "newPage", out)
       /\ IF out # "ok" THEN Throw(r, out, <<>>) /\ UNCHANGED htmlContent
          ELSE IF generateHTMLThrows(body[r]) THEN Throw(r, "TypeError", <<>>) /\ UNCHANGED htmlContent
          ELSE /\ htmlContent' = [htmlContent EXCEPT ![r] = generateHTMLContent(body[r])]
               /\ Goto(r, "setContent", <<"Rendered">>)
  /\ UNCHANGED <<body, browser, open, nextId, pdfBuffer>>

\* Lines 37-44: setContent settles; the 3 second timer is started.
SetContent(r) ==
  /\ pc[r] = "setContent"
  /\ Count(callLog[r], "setContent") < MaxCalls
  /\ \E out \in Outcomes :
       /\ callLog' = Logged(r, "setContent", out)
       /\ IF out # "ok" THEN Throw(r, out, <<>>)
          ELSE Goto(r, "delay", <<"ContentLoaded">>)
  /\ UNCHANGED <<body, browser, open, nextId, htmlContent, pdfBuffer>>

\* Lines 44-49: the timer fires; page.pdf is called.
Delay(r) ==
  /\ pc[r] = "delay"
  /\ callLog' = Logged(r, "delay", "ok")
  /\ Goto(r, "pdf", <<"PdfAttempted">>)
  /\ UNCHANGED <<body, browser, open, nextId, htmlContent, pdfBuffer>>

\* Lines 49-62 and 88-97: page.pdf settles; browser.close is called from the
\* inner catch block, from the empty-buffer branch or from the success path.
Pdf(r) ==
  /\ pc[r] = "pdf"
  /\ Count(callLog[r], "pdf") < MaxCalls
  /\ \/ \E out \in Errors :
          /\ callLog' = Logged(r, "pdf", out)
          /\ Goto(r, AfterPdfFailure, <<"PdfFailure">>)
          /\ UNCHANGED pdfBuffer
     \/ \E len \in BufferLens :
          /\ callLog' = Logged(r, "pdf", "ok")
          /\ pdfBuffer' = [pdfBuffer EXCEPT ![r] = [len |-> len]]
          /\ IF IsEmptyBuffer(pdfBuffer'[r])
             THEN Goto(r, "closeEmpty", <<"PdfSuccess">>)
             ELSE Goto(r, "closeSuccess", <<"PdfSuccess">>)
  /\ UNCHANGED <<body, browser, open, nextId, htmlContent>>

\* browser.close() rejects: the error reaches the outer catch block, and the
\* browser process is either gone or still running.
CloseRejects(r) ==
  \E out \in Errors :
    /\ callLog' = Logged(r, "close", out)
    /\ open' \in {open, open \ {browser[r]}}
    /\ Throw(r, out, <<>>)

\* browser.close() resolves.
CloseResolves(r) ==
  /\ callLog' = Logged(r, "close", "ok")
  /\ open' = open \ {browser[r]}

\* Lines 62-85: close settles in the inner catch block; the fallback HTML
\* response is built and returned.
CloseFallback(r) ==
  /\ pc[r] = "closeFallback"
  /\ \/ CloseRejects(r)
     \/ /\ CloseResolves(r)
        /\ IF ResponseThrows(body[r]) THEN Throw(r, "TypeError", <<"BrowserClosed">>)
           ELSE Finish(r, FallbackResponse(body[r]), "none", <<"BrowserClosed", "FallbackHtml">>)
  /\ UNCHANGED <<body, browser, nextId, htmlContent, pdfBuffer>>

\* Lines 93-94: close settles in the empty-buffer branch.
CloseEmpty(r) ==
  /\ pc[r] = "closeEmpty"
  /\ \/ CloseRejects(r)
     \/ /\ CloseResolves(r)
        /\ Finish(r, JsonResponse(500, EmptyBufferMessage), "none", <<"BrowserClosed">>)
  /\ UNCHANGED <<body, browser, nextId, htmlContent, pdfBuffer>>

\* CloseSuccess with the response returned without awaiting browser.close().
CloseSuccessNotAwaited(r) ==
  /\ pc[r] = "closeSuccess"
  /\ IF ResponseThrows(body[r]) THEN Throw(r, "TypeError", <<>>)
     ELSE Finish(r, PdfResponse(body[r], pdfBuffer[r]), "none", <<>>)
  /\ UNCHANGED <<body, browser, open, nextId, htmlContent, pdfBuffer, callLog>>

\* Lines 97-109: close settles on the success path; the PDF response is built.
CloseSuccess(r) ==
  /\ pc[r] = "closeSuccess"
  /\ \/ CloseRejects(r)
     \/ /\ CloseResolves(r)
        /\ IF ResponseThrows(body[r]) THEN Throw(r, "TypeError", <<"BrowserClosed">>)
           ELSE Finish(r, PdfResponse(body[r], pdfBuffer[r]), "none", <<"BrowserClosed">>)
  /\ UNCHANGED <<body, browser, nextId, htmlContent, pdfBuffer>>

Next ==
  \E r \in Requests :
    \/ RequestJson(r)
    \/ Launch(r)
    \/ NewPage(r)
    \/ SetContent(r)
    \/ Delay(r)
    \/ Pdf(r)
    \/ CloseFallback(r)
    \/ CloseEmpty(r)
    \/ CloseSuccess(r)

InitCommon ==
  /\ browser = [r \in Requests |-> 0]
  /\ open = {}
  /\ nextId = 1
  /\ htmlContent = [r \in Requests |-> NoHtml]
  /\ pdfBuffer = [r \in Requests |-> NoBuffer]
  /\ resp = [r \in Requests |-> NoResponse]
  /\ caught = [r \in Requests |-> "none"]
  /\ trace = [r \in Requests |-> <<>>]
  /\ callLog = [r \in Requests |-> <<>>]

\* One request arrives; the other request slots stay idle.
Init ==
  /\ InitCommon
  /\ pc = [r \in Requests |-> IF r = 1 THEN "json" ELSE "idle"]
  /\ \E b \in Bodies : body = [r \in Requests |-> IF r = 1 THEN b ELSE NullBody]

Spec == Init /\ [][Next]_vars

\* Every awaited call settles: the handler's next step is eventually taken.
FairSpec == Spec /\ WF_vars(Next)

\* NumRequests requests are in flight together.
ConcInit ==
  /\ InitCommon
  /\ pc = [r \in Requests |-> "json"]
  /\ body \in [Requests -> ConcBodies]

ConcSpec == ConcInit /\ [][Next]_vars

(* --------------------- the HTML builder on its own --------------------- *)
\* Scores in tenths, on and around the thresholds of Math.round and BarClass.
ScoreValues == {0, 4, 390, 394, 395, 400, 594, 595, 600, 794, 795, 800, 1000}

BuilderBody == ObjectBody(Str(JaneDoe), Undefined, NoScores, Undefined, Undefined)

PresentScores(scores) == {c \in CategoryLabels : scores[c].t # "undefined"}

HtmlInit ==
  /\ browser = [r \in Requests |-> 0]
  /\ open = {}
  /\ nextId = 1
  /\ pdfBuffer = [r \in Requests |-> NoBuffer]
  /\ resp = [r \in Requests |-> NoResponse]
  /\ caught = [r \in Requests |-> "none"]
  /\ trace = [r \in Requests |-> <<>>]
  /\ callLog = [r \in Requests |-> <<>>]
  /\ pc = [r \in Requests |-> "idle"]
  /\ body = [r \in Requests |-> BuilderBody]
  /\ htmlContent = [r \in Requests |-> generateHTMLContent(BuilderBody)]

\* The input gets score v for category c and the builder is applied to it.
SetScore(c, v) ==
  /\ body[1].CountryFit = Undefined
  /\ Cardinality(PresentScores(body[1].Scores) \cup {c}) <= MaxPresent
  /\ body' = [body EXCEPT ![1].Scores[c] = Num(v)]
  /\ htmlContent' = [htmlContent EXCEPT ![1] = generateHTMLContent(body'[1])]
  /\ UNCHANGED <<pc, browser, open, nextId, pdfBuffer, resp, caught, trace, callLog>>

\* The country names an input's countryFit is drawn from: one of the table,
\* one unknown to it.
CountryNames == {Canada, Narnia}

\* The input gets an empty countryFit array and the builder is applied to it.
EmptyCountryFit ==
  /\ PresentScores(body[1].Scores) = {}
  /\ body[1].CountryFit = Undefined
  /\ body' = [body EXCEPT ![1].CountryFit = Arr(<<>>)]
  /\ htmlContent' = [htmlContent EXCEPT ![1] = generateHTMLContent(body'[1])]
  /\ UNCHANGED <<pc, browser, open, nextId, pdfBuffer, resp, caught, trace, callLog>>

\* The input's countryFit gets one more country and the builder is applied to it.
AppendCountry(c) ==
  /\ PresentScores(body[1].Scores) = {}
  /\ body[1].CountryFit.t = "array"
  /\ Len(body[1].CountryFit.a) < MaxCountries
  /\ body' = [body EXCEPT ![1].CountryFit = Arr(Append(@.a, Str(c)))]
  /\ htmlContent' = [htmlContent EXCEPT ![1] = generateHTMLContent(body'[1])]
  /\ UNCHANGED <<pc, browser, open, nextId, pdfBuffer, resp, caught, trace, callLog>>

HtmlNext ==
  \/ \E c \in CategoryLabels, v \in ScoreValues : SetScore(c, v)
  \/ EmptyCountryFit
  \/ \E c \in CountryNames : AppendCountry(c)

HtmlSpec == HtmlInit /\ [][HtmlNext]_vars

(* ------------------ the attachment file names on their own ------------- *)
\* The characters student names are built from: upper and lower case letters,
\* two kinds of whitespace, and the character whitespace is replaced by.
NameChars == {"A", "b", " ", "\t", "-"}

\* A body whose accepted name is name, given under 'Student Name' or, with
\* 'Student Name' empty, under studentName.
NamedBody(name, second) ==
  IF second
  THEN ObjectBody(Str(<<>>), Str(name), NoScores, Undefined, Undefined)
  ELSE ObjectBody(Str(name), Undefined, NoScores, Undefined, Undefined)

\* The responses built for one body: the PDF response of request 1 (page.pdf
\* resolved with one byte) and the fallback response of the other requests
\* (page.pdf rejected).
BuiltResponses(b) ==
  [r \in Requests |-> IF r = 1 THEN PdfResponse(b, [len |-> 1]) ELSE FallbackResponse(b)]

SlugInit ==
  /\ browser = [r \in Requests |-> 0]
  /\ open = {}
  /\ nextId = 1
  /\ pdfBuffer = [r \in Requests |-> IF r = 1 THEN [len |-> 1] ELSE NoBuffer]
  /\ caught = [r \in Requests |-> "none"]
  /\ trace = [r \in Requests |-> <<>>]
  /\ callLog = [r \in Requests |-> <<>>]
  /\ pc = [r \in Requests |-> "idle"]
  /\ htmlContent = [r \in Requests |-> NoHtml]
  /\ \E name \in {JaneDoe} \cup {<<ch>> : ch \in NameChars}, second \in BOOLEAN :
       /\ body = [r \in Requests |-> NamedBody(name, second)]
       /\ resp = BuiltResponses(NamedBody(name, second))

\* The name gets one more character and the responses are built for it.
AppendNameChar(ch) ==
  LET second == ~Truthy(body[1].StudentName)
      name == StudentNameOf(body[1]).s \o <<ch>>
  IN  /\ Len(name) <= MaxNameLen
      /\ body' = [r \in Requests |-> NamedBody(name, second)]
      /\ resp' = BuiltResponses(NamedBody(name, second))
      /\ UNCHANGED <<pc, browser, open, nextId, htmlContent, pdfBuffer, caught, trace, callLog>>

SlugNext == \E ch \in NameChars : AppendNameChar(ch)

SlugSpec == SlugInit /\ [][SlugNext]_vars

(* ------------------------------- claims -------------------------------- *)
Done(r) == pc[r] = "done"
Passed(r, milestone) == \E i \in 1..Len(trace[r]) : trace[r][i] = milestone
Called(r, op) == \E i \in 1..Len(callLog[r]) : callLog[r][i].op = op
Settled(r, op, out) ==
  \E i \in 1..Len(callLog[r]) : callLog[r][i].op = op /\ callLog[r][i].out = out
Rejected(r, op) == \E out \in Errors : Settled(r, op, out)

\* C1: whenever the launch succeeded, the browser is closed by the time the
\* handler has returned, on every exit path.
C1_BrowserClosedOnEveryExit ==
  \A r \in Requests : (Done(r) /\ Settled(r, "launch", "ok")) => browser[r] \notin open

\* The body has neither name field present and non-empty.
LacksName(b) == b.kind = "null" \/ MissingStudentName(b)

\* C2: every parsed body without a non-empty name is answered 400
\* {error: "Missing student name"} before any browser is launched, and a body
\* with a non-empty name is not answered 400.
C2_MissingNameIs400 ==
  \A r \in Requests :
    (Done(r) /\ Settled(r, "json", "ok")) =>
      IF LacksName(body[r])
      THEN /\ resp[r] = JsonResponse(400, MissingNameMessage)
           /\ ~Called(r, "launch")
           /\ browser[r] = 0
      ELSE resp[r].status # 400

IsPdfResponse(r) ==
  /\ resp[r].kind = "pdf"
  /\ resp[r].status = 200
  /\ resp[r].contentType = "application/pdf"
  /\ resp[r].body = pdfBuffer[r]
  /\ resp[r].body.len > 0

IsFallbackResponse(r) ==
  /\ resp[r].kind = "html"
  /\ resp[r].status = 200
  /\ resp[r].contentType = "text/html"
  /\ resp[r].filename.ext = ".html"
  /\ resp[r].body.student = StudentNameOf(body[r]).s
  /\ resp[r].body.note = FallbackNote

C5_EmptyBufferIs500 ==
  \A r \in Requests :
    Done(r) =>
      /\ (Settled(r, "pdf", "ok") /\ pdfBuffer[r].len = 0) =>
           /\ Count(callLog[r], "close") = 1
           /\ (Settled(r, "close", "ok") => browser[r] \notin open)
           /\ resp[r].kind = "json" /\ resp[r].status = 500
      /\ resp[r].kind = "pdf" => resp[r].body.len > 0

C5_Witness ==
  \E r \in Requests :
    /\ Done(r) /\ pdfBuffer[r].len = 0
    /\ resp[r] = JsonResponse(500, EmptyBufferMessage)
    /\ browser[r] # 0 /\ browser[r] \notin open

CaughtElsewhere(r) ==
  \E i \in 1..Len(callLog[r]) : callLog[r][i].out # "ok" /\ callLog[r][i].op # "pdf"

\* C6: a failure of any awaited call other than page.pdf is answered 500 with
\* the fixed generic JSON body, never with the fallback HTML, and two requests
\* that end in the outer catch block get identical responses whatever was thrown.
C6_GenericErrorResponse ==
  /\ \A r \in Requests :
       (Done(r) /\ CaughtElsewhere(r)) =>
         /\ caught[r] # "none"
         /\ resp[r].status = 500
         /\ resp[r].kind = "json"
         /\ resp[r].error = GenericMessage
  /\ \A r1, r2 \in Requests :
       (Done(r1) /\ Done(r2) /\ caught[r1] # "none" /\ caught[r2] # "none") =>
         resp[r1] = resp[r2]

C6_Witness ==
  \E r1, r2 \in Requests :
    /\ Done(r1) /\ Done(r2)
    /\ caught[r1] = "TimeoutError" /\ caught[r2] = "ProtocolError"
    /\ Rejected(r1, "setContent") /\ Rejected(r2, "close")

\* The order of the claimed state machine.
ClaimedRank(m) ==
  CASE m = "Validated" -> 1
    [] m = "Rendered" -> 2
    [] m = "BrowserOpen" -> 3
    [] m = "ContentLoaded" -> 4
    [] m = "PdfAttempted" -> 5
    [] m \in {"PdfSuccess", "PdfFailure"} -> 6
    [] m = "FallbackHtml" -> 7
    [] m = "BrowserClosed" -> 8
    [] m = "ResponseSent" -> 9

\* The order with the browser opened before the HTML is built and closed
\* before the fallback HTML is built.
AmendedRank(m) ==
  CASE m = "Validated" -> 1
    [] m = "BrowserOpen" -> 2
    [] m = "Rendered" -> 3
    [] m = "ContentLoaded" -> 4
    [] m = "PdfAttempted" -> 5
    [] m \in {"PdfSuccess", "PdfFailure"} -> 6
    [] m = "BrowserClosed" -> 7
    [] m = "FallbackHtml" -> 8
    [] m = "ResponseSent" -> 9

ClosedBeforeResponse(r) ==
  (Done(r) /\ (resp[r].kind \in {"pdf", "html"} \/ resp[r] = JsonResponse(500, EmptyBufferMessage))) =>
    /\ Passed(r, "BrowserClosed")
    /\ browser[r] \notin open

\* C7 as claimed: the milestones of a request occur in the order Validated,
\* Rendered, BrowserOpen, ContentLoaded, PdfAttempted, PdfSuccess | PdfFailure,
\* FallbackHtml, BrowserClosed, ResponseSent, and the browser is closed before
\* a PDF, fallback or empty-buffer response is returned.
C7_ClaimedOrder ==
  \A r \in Requests :
    /\ \A i, j \in 1..Len(trace[r]) :
         i < j => ClaimedRank(trace[r][i]) < ClaimedRank(trace[r][j])
    /\ ClosedBeforeResponse(r)

\* C7 as amended: the milestones occur in the order Validated, BrowserOpen,
\* Rendered, ContentLoaded, PdfAttempted, PdfSuccess | PdfFailure,
\* BrowserClosed, FallbackHtml, ResponseSent, none is reached without the one
\* before it, and the browser is closed before a PDF, fallback or empty-buffer
\* response is returned.
C7_StepOrder ==
  \A r \in Requests :
    /\ \A i, j \in 1..Len(trace[r]) :
         i < j => AmendedRank(trace[r][i]) < AmendedRank(trace[r][j])
    /\ Passed(r, "BrowserOpen") => Passed(r, "Validated")
    /\ Passed(r, "Rendered") => Passed(r, "BrowserOpen")
    /\ Passed(r, "ContentLoaded") => Passed(r, "Rendered")
    /\ Passed(r, "PdfAttempted") => Passed(r, "ContentLoaded")
    /\ (Passed(r, "PdfSuccess") \/ Passed(r, "PdfFailure")) => Passed(r, "PdfAttempted")
    /\ Passed(r, "BrowserClosed") => (Passed(r, "PdfSuccess") \/ Passed(r, "PdfFailure"))
    /\ Passed(r, "FallbackHtml") => (Passed(r, "PdfFailure") /\ Passed(r, "BrowserClosed"))
    /\ Passed(r, "Rendered") <=> htmlContent[r] # NoHtml
    /\ Passed(r, "BrowserOpen") <=> browser[r] # 0
    /\ ClosedBeforeResponse(r)

C7_Witness ==
  \E r \in Requests :
    /\ Done(r)
    /\ resp[r].kind = "html"
    /\ trace[r] = <<"Validated", "BrowserOpen", "Rendered", "ContentLoaded", "PdfAttempted",
                    "PdfFailure", "BrowserClosed", "FallbackHtml", "ResponseSent">>

Responses(r) == Cardinality({i \in 1..Len(trace[r]) : trace[r][i] = "ResponseSent"})

\* A rejected call ends the request, except that a rejected page.pdf is
\* followed by browser.close alone.
FailureIsTerminal(r) ==
  \A i \in 1..Len(callLog[r]) :
    callLog[r][i].out # "ok" =>
      IF callLog[r][i].op = "pdf"
      THEN \A j \in (i + 1)..Len(callLog[r]) : callLog[r][j].op = "close" /\ j = i + 1
      ELSE i = Len(callLog[r]) /\ Done(r)

\* C8: given that every awaited call settles, every request reaches
\* ResponseSent with exactly one response (400, 200 PDF, 200 fallback HTML or
\* 500), the response never changes afterwards, launch, setContent and pdf are
\* each invoked at most once, and a failure is terminal.
C8_OneResponseNoRetry ==
  /\ \A r \in Requests : (pc[r] = "json") ~> Done(r)
  /\ [](\A r \in Requests :
          /\ Count(callLog[r], "launch") <= 1
          /\ Count(callLog[r], "setContent") <= 1
          /\ Count(callLog[r], "pdf") <= 1
          /\ FailureIsTerminal(r)
          /\ Responses(r) = (IF Done(r) THEN 1 ELSE 0)
          /\ Done(r) => \/ resp[r].kind \in {"pdf", "html"} /\ resp[r].status = 200
                        \/ resp[r].kind = "json" /\ resp[r].status \in {400, 500})
  /\ [][\A r \in Requests : Done(r) => (pc'[r] = "done" /\ resp'[r] = resp[r])]_vars

C8_Witness ==
  /\ Done(1)
  /\ resp[1].kind = "html"
  /\ Count(callLog[1], "launch") = 1
  /\ Count(callLog[1], "setContent") = 1
  /\ Count(callLog[1], "pdf") = 1
  /\ Rejected(1, "pdf")

\* C9: concurrently handled requests have distinct browser instances; a
\* browser stays open until its own request calls close on it; at most one
\* browser is open per request; and two requests with the same input and the
\* same outcomes of their own calls get the same response, however the steps
\* of the requests interleave.
C9_RequestsIndependent ==
  /\ \A r1, r2 \in Requests :
       (r1 # r2 /\ browser[r1] # 0) => browser[r1] # browser[r2]
  /\ open \subseteq {browser[r] : r \in Requests}
  /\ \A r \in Requests :
       (browser[r] # 0 /\ ~Called(r, "close")) => browser[r] \in open
  /\ \A r \in Requests : Settled(r, "close", "ok") => browser[r] \notin open
  /\ \A r1, r2 \in Requests :
       (/\ Done(r1) /\ Done(r2)
        /\ body[r1] = body[r2] /\ callLog[r1] = callLog[r2] /\ pdfBuffer[r1] = pdfBuffer[r2])
       => resp[r1] = resp[r2]

\* Every in-flight request holds an open browser at the same time, while one
\* of them is still running and another has its PDF attempt failing.
C9_Witness ==
  /\ Cardinality(open) = NumRequests
  /\ \A r \in Requests : browser[r] \in open
  /\ \E r1, r2 \in Requests : pc[r1] = "closeFallback" /\ pc[r2] = "setContent"

ExpectedClass(percentage) ==
  CASE percentage >= 80 -> "excellent"
    [] percentage \in 60..79 -> "good"
    [] percentage \in 40..59 -> "average"
    [] percentage < 40 -> "weak"

\* C10: for each score category present in the input scores, a present 0
\* included, the builder renders exactly one score card, and its fill class is
\* the class of the rounded score.
C10_EveryPresentScoreHasCard ==
  \A c \in PresentScores(body[1].Scores) :
    LET cards == {i \in 1..Len(htmlContent[1].cards) : htmlContent[1].cards[i].label = c}
    IN  /\ Cardinality(cards) = 1
        /\ \A i \in cards :
             htmlContent[1].cards[i].barClass = ExpectedClass(MathRound(body[1].Scores[c].n))

\* The countryFit sequence of the input: empty when the field is absent.
CountryFitOf(results) ==
  IF results.CountryFit.t = "array" THEN results.CountryFit.a ELSE <<>>

\* C11: the builder renders one card per country of countryFit, in input
\* order, the card at zero-based index i carrying rank i+1 and match
\* percentage 100 - 15*i, unclamped; an empty or absent countryFit renders no
\* country section.
C11_CountryCards ==
  LET fit == CountryFitOf(body[1])
      cards == htmlContent[1].countryCards
  IN  /\ Len(cards) = Len(fit)
      /\ \A i \in 1..Len(fit) :
           /\ cards[i].name = fit[i].s
           /\ cards[i].rank = i
           /\ cards[i].match = 100 - 15 * (i - 1)
      /\ (Len(fit) >= 3 =>
            cards[1].match = 100 /\ cards[2].match = 85 /\ cards[3].match = 70)
      /\ htmlContent[1].countrySection <=> Len(fit) > 0

\* A countryFit of eight countries: the last card has rank 8 and match -5.
C11_Witness ==
  /\ Len(CountryFitOf(body[1])) = 8
  /\ Len(htmlContent[1].countryCards) = 8
  /\ htmlContent[1].countryCards[8].rank = 8
  /\ htmlContent[1].countryCards[8].match = -5
  /\ htmlContent[1].countryCards[1].name = Canada
  /\ htmlContent[1].countryCards[2].name = Narnia

\* The lower-case form of the letters the names of the model contain.
ExpectedLower(c) ==
  CASE c = "A" -> "a"
    [] c = "J" -> "j"
    [] c = "D" -> "d"
    [] OTHER -> c

\* The slug read off the name position by position: a character that is not
\* whitespace gives its lower-case form, the first character of a run of
\* whitespace gives '-', the other characters of the run give nothing.
ExpectedSlug(name) ==
  LET kept == SelectSeq([i \in 1..Len(name) |-> i],
                        LAMBDA i : name[i] \notin WhiteSpace \/ i = 1 \/ name[i - 1] \notin WhiteSpace)
  IN  [k \in 1..Len(kept) |->
         IF name[kept[k]] \in WhiteSpace THEN "-" ELSE ExpectedLower(name[kept[k]])]

\* C12: for an accepted name, the file names of the PDF response and of the
\* fallback HTML response embed the same slug; it is the name with every
\* maximal run of whitespace replaced by one '-' and lower-cased ("Jane Doe"
\* gives jane-doe); it has no whitespace and no upper-case letter; and
\* slugifying it again changes nothing.
C12_FilenameSlug ==
  LET name == StudentNameOf(body[1]).s
      slug == resp[1].filename.slug
  IN  /\ resp[1].kind = "pdf" /\ resp[1].filename.ext = ".pdf"
      /\ \A r \in Requests \ {1} :
           /\ resp[r].kind = "html" /\ resp[r].filename.ext = ".html"
           /\ resp[r].filename.slug = slug
      /\ slug = ExpectedSlug(name)
      /\ name = JaneDoe => slug = <<"j", "a", "n", "e", "-", "d", "o", "e">>
      /\ \A i \in 1..Len(slug) :
           /\ slug[i] \notin WhiteSpace
           /\ \A j \in 1..Len(UpperLetters) : slug[i] # UpperLetters[j]
      /\ Slugify(slug) = slug

\* A name with an upper-case letter and two runs of whitespace, one of them
\* of two characters, given under studentName.
C12_Witness ==
  /\ body[1].studentName = Str(<<" ", "A", "\t", " ">>)
  /\ resp[1].kind = "pdf" /\ resp[1].filename.slug = <<"-", "a", "-">>
  /\ resp[2].kind = "html" /\ resp[2].filename.slug = <<"-", "a", "-">>

====
